---- MODULE Spec2Model ----
(***************************************************************************)
(* Model of src/src/convert_dicom_to_dzi.py: the DICOM frame-selection     *)
(* pipeline (dicom_to_image), the single-file conversion                   *)
(* (convert_dicom_to_dzi) and the multi-frame batch conversion             *)
(* (convert_dicom_multiframe) with its series manifest.                    *)
(*                                                                         *)
(* A pixel array is modelled by its shape, a sequence of dimension sizes.  *)
(* An optional frame index is the empty sequence (Python's None) or a      *)
(* one-element sequence <<i>>.  An output file is modelled by the number   *)
(* of the call that wrote it, 0 when the file does not exist.              *)
(***************************************************************************)
EXTENDS Integers, Sequences, FiniteSets, TLC

\* ------------------------------------------------------------------ bounds
\* Largest size of one dimension of a pixel array (SpecImage).
MaxDim == 3
\* Largest number of dimensions of a pixel array (SpecImage).
MaxRank == 4
\* Largest number of frames of a series handed to the batch (Spec).
MaxFrames == 3
\* Number of conversion calls made on one output directory (Spec).
MaxRuns == 3
\* Number of batch calls made on one output directory (SpecWorkers).
WorkerRuns == 2
\* Largest magnitude of the small stored pixel values of a frame (SpecNorm).
MaxPixel == 2

\* ----------------------------------------------------------------- values
None == <<>>
Some(i) == <<i>>

\* Shapes of rank r with every dimension in 1..d.
ShapesOfRank(r, d) == [1..r -> 1..d]
AllShapes == UNION {ShapesOfRank(r, MaxDim) : r \in 1..MaxRank}

\* Frame requests tried against a shape: none, negative, in range, past the end.
FrameIds == -1..MaxFrames
FrameRequests == {None} \cup {Some(i) : i \in -1..(MaxDim + 1)}

\* The input file as the loader finds it.
FileStates == {"ok", "missing", "unreadable", "nopixels"}

\* One shape for each branch of the layout code, and stacks of 2..MaxFrames
\* frames whose frames are 2x2 (usable) or 1x2 (a single row).
BatchShapes ==
    {<<2>>, <<2, 2>>, <<2, 2, 3>>, <<1, 2, 2>>, <<1, 2, 2, 3>>, <<2, 2, 2, 2>>}
      \cup {<<n, h, 2>> : n \in 2..MaxFrames, h \in 1..2}

\* ------------------------------------------------------- dicom_to_image
\* np.squeeze: every dimension of size 1 is dropped.
Squeeze(s) == SelectSeq(s, LAMBDA d : d # 1)

Outcome(k, total, s, m) ==
    [kind |-> k, total_frames |-> total, shape |-> s, mode |-> m]

\* Image.fromarray on the normalized array: 'L' for two dimensions, 'RGB'
\* otherwise; an array without dimensions has no size and raises.
FromArray(sq, total) ==
    IF Len(sq) = 2 THEN Outcome("image", total, sq, "L")
    ELSE IF Len(sq) = 3 THEN Outcome("image", total, sq, "RGB")
    ELSE Outcome("RasterError", total, sq, "-")

\* The dimension check after the squeeze.
CheckDimensions(sq, total) ==
    IF Len(sq) = 1 THEN Outcome("Unsupported", total, sq, "-")
    ELSE IF Len(sq) = 3 /\ sq[1] > 1 /\ sq[3] # 3
        THEN Outcome("Unsupported", total, sq, "-")
    ELSE IF Len(sq) > 3 THEN Outcome("Unsupported", total, sq, "-")
    ELSE FromArray(sq, total)

\* A three-dimensional array whose last dimension is not 3 is a frame stack.
IsStack(s) == Len(s) = 3 /\ s[3] # 3

\* A variant of dicom_to_image that takes the first frame of a stack when no
\* frame is requested.
dicom_to_image_first_frame(fs, s, frame_index) ==
    IF fs # "ok" THEN Outcome("LoadError", 1, <<>>, "-")
    ELSE IF IsStack(s) /\ frame_index # None
                       /\ (frame_index[1] < 0 \/ frame_index[1] >= s[1])
        THEN Outcome("FrameIndexError", s[1], <<>>, "-")
    ELSE CheckDimensions(Squeeze(IF IsStack(s) THEN Tail(s) ELSE s),
                         IF IsStack(s) THEN s[1] ELSE 1)

\* dicom_to_image(dicom_path, frame_index): the file as found (fs), the shape
\* of its pixel array (s) and the requested frame.
dicom_to_image(fs, s, frame_index) ==
    IF fs # "ok" THEN Outcome("LoadError", 1, <<>>, "-")
    ELSE
      LET total_frames == IF IsStack(s) THEN s[1] ELSE 1
      IN  IF IsStack(s) /\ frame_index # None
                        /\ (frame_index[1] < 0 \/ frame_index[1] >= total_frames)
              THEN Outcome("FrameIndexError", total_frames, <<>>, "-")
          ELSE IF IsStack(s) /\ frame_index = None /\ total_frames # 1
              THEN Outcome("needs_frame", total_frames, <<>>, "-")
          ELSE CheckDimensions(Squeeze(IF IsStack(s) THEN Tail(s) ELSE s),
                               total_frames)

\* ------------------------------------- dicom_to_image: the pixel pipeline
\* Width of the stored integer pixel type (int16 or uint16 pixel data).
StoredBits == 16

Pow2(n) == 2 ^ n

\* Two's-complement wrap of x into the signed stored type.
WrapSigned(x) ==
    ((x + Pow2(StoredBits - 1)) % Pow2(StoredBits)) - Pow2(StoredBits - 1)

SeqRange(s) == {s[i] : i \in 1..Len(s)}
SeqMin(s) == CHOOSE x \in SeqRange(s) : \A y \in SeqRange(s) : x <= y
SeqMax(s) == CHOOSE x \in SeqRange(s) : \A y \in SeqRange(s) : x >= y

\* hasattr(ds, 'RescaleSlope') and hasattr(ds, 'RescaleIntercept').
HasRescale(d) == d.RescaleSlope # None /\ d.RescaleIntercept # None

\* hasattr(ds, 'WindowCenter') and hasattr(ds, 'WindowWidth').
HasWindow(d) == d.WindowCenter # None /\ d.WindowWidth # None

\* pixel_array * RescaleSlope + RescaleIntercept, when both are present.
Rescale(d, v) ==
    IF HasRescale(d) THEN v * d.RescaleSlope[1] + d.RescaleIntercept[1]
    ELSE v

\* A variant of the clip that moves a value below the window one half unit
\* toward it instead of onto its lower bound.
Clip_step(v, lo, hi) ==
    LET raised == IF v < lo THEN v + 1 ELSE v
    IN  IF raised > hi THEN hi ELSE raised

\* np.clip(v, lo, hi) = minimum(maximum(v, lo), hi).
Clip(v, lo, hi) ==
    LET raised == IF v < lo THEN lo ELSE v
    IN  IF raised > hi THEN hi ELSE raised

\* The window in half units: img_min = center - width / 2 and
\* img_max = center + width / 2, of the first declared center and width.
ImgMin2(d) == 2 * d.WindowCenter[1] - d.WindowWidth[1]
ImgMax2(d) == 2 * d.WindowCenter[1] + d.WindowWidth[1]

\* Rescale and windowing make the array floating point; without them it
\* keeps the stored integer type.
IsFloating(d) == HasRescale(d) \/ HasWindow(d)

\* The array handed to the normalization.  A floating array is held in half
\* units (twice its value), so that width / 2 is exact; an integer array is
\* held as stored.
Transformed(d) ==
    IF ~IsFloating(d) THEN d.px
    ELSE [i \in 1..Len(d.px) |->
             IF HasWindow(d)
               THEN Clip(2 * Rescale(d, d.px[i]), ImgMin2(d), ImgMax2(d))
               ELSE 2 * Rescale(d, d.px[i])]

\* pixel_array - np.min(pixel_array): in the stored type when the array is
\* still an integer array (a signed type wraps), exact otherwise.
Shifted(d) ==
    LET a == Transformed(d)
        m == SeqMin(a)
    IN  [i \in 1..Len(a) |->
            IF ~IsFloating(d) /\ d.signed THEN WrapSigned(a[i] - m)
            ELSE a[i] - m]

\* Truncation toward zero of num / den (den > 0).
TruncDiv(num, den) ==
    IF num >= 0 THEN num \div den ELSE 0 - ((0 - num) \div den)

\* astype(np.uint8) of the float num / den: truncation inside 0..255; outside
\* it the C conversion is undefined and the build wraps or saturates.
CastFloat(num, den, b) ==
    LET q == TruncDiv(num, den)
    IN  IF 0 <= q /\ q <= 255 THEN q
        ELSE IF b = "wrap" THEN q % 256
        ELSE IF q < 0 THEN 0 ELSE 255

\* astype(np.uint8) of an integer: the low eight bits.
CastInt(x) == x % 256

\* The normalization: divide by the maximum when it is positive, multiply by
\* 255, cast to uint8.
Scaled(d, b) ==
    LET s == Shifted(d)
        mx == SeqMax(s)
    IN  [i \in 1..Len(s) |->
            IF mx > 0 THEN CastFloat(255 * s[i], mx, b)
            ELSE IF IsFloating(d) THEN CastFloat(255 * s[i], 2, b)
            ELSE IF d.signed THEN CastInt(WrapSigned(255 * s[i]))
            ELSE CastInt((255 * s[i]) % Pow2(StoredBits))]

\* getattr(ds, 'PhotometricInterpretation', 'MONOCHROME2').
Photometric(d) ==
    IF d.PhotometricInterpretation = None THEN "MONOCHROME2"
    ELSE d.PhotometricInterpretation[1]

\* A variant that inverts every interpretation other than MONOCHROME2.
Invert_unless_mono2(d, r) ==
    IF Photometric(d) # "MONOCHROME2" THEN [i \in 1..Len(r) |-> 255 - r[i]]
    ELSE r

\* A variant that negates a MONOCHROME1 raster in uint8 (256 - x) instead of
\* taking 255 - x.
Invert_negate(d, r) ==
    IF Photometric(d) = "MONOCHROME1"
      THEN [i \in 1..Len(r) |-> (256 - r[i]) % 256]
    ELSE r

\* A variant that also inverts a frame that declares no interpretation.
Invert_when_undeclared(d, r) ==
    IF Photometric(d) = "MONOCHROME1" \/ d.PhotometricInterpretation = None
      THEN [i \in 1..Len(r) |-> 255 - r[i]]
    ELSE r

\* The photometric correction: 255 - raster for MONOCHROME1.
Invert(d, r) ==
    IF Photometric(d) = "MONOCHROME1" THEN [i \in 1..Len(r) |-> 255 - r[i]]
    ELSE r

\* The raster dicom_to_image builds from the selected frame (lines 130-160).
NormalizedRaster(d, b) == Invert(d, Scaled(d, b))

\* The frames and attributes tried: three pixels drawn from small values and
\* the extremes of the stored type.
PixelSamples(signed) ==
    IF signed
      THEN (0 - MaxPixel)..MaxPixel
             \cup {0 - Pow2(StoredBits - 1), Pow2(StoredBits - 1) - 1}
      ELSE 0..MaxPixel \cup {Pow2(StoredBits) - 1}

RescaleSamples ==
    {<<None, None>>, <<Some(2), None>>, <<None, Some(0 - 1)>>,
     <<Some(2), Some(0 - 1)>>, <<Some(1), Some(0)>>}

WindowSamples ==
    {<<None, None>>, <<Some(1), None>>, <<None, Some(2)>>,
     <<Some(0), Some(2)>>, <<Some(1), Some(3)>>, <<Some(1), Some(0)>>,
     <<<<0, 9>>, <<1, 9>>>>}

PhotometricSamples ==
    {None, Some("MONOCHROME1"), Some("MONOCHROME2"), Some("RGB")}

Builds == {"wrap", "saturate"}

\* An attribute is None when absent and the sequence of its values when
\* present (a multi-valued window holds several).
Dataset(px, signed, rs, w, ph) ==
    [px |-> px, signed |-> signed,
     RescaleSlope |-> rs[1], RescaleIntercept |-> rs[2],
     WindowCenter |-> w[1], WindowWidth |-> w[2],
     PhotometricInterpretation |-> ph]


NoDataset == Dataset(<<0, 0, 0>>, FALSE, <<None, None>>, <<None, None>>, None)

\* ------------------------------------------------- extract_dicom_metadata
\* The dataset attributes read, and the metadata field each one fills.
TextAttributes ==
    {"PatientID", "PatientName", "StudyDate", "StudyDescription", "Modality",
     "PhotometricInterpretation"}
NumericAttributes == {"Rows", "Columns", "BitsStored"}
Attributes == TextAttributes \cup NumericAttributes

FieldOf(a) ==
    CASE a = "PatientID" -> "patient_id"
      [] a = "PatientName" -> "patient_name"
      [] a = "StudyDate" -> "study_date"
      [] a = "StudyDescription" -> "study_description"
      [] a = "Modality" -> "modality"
      [] a = "Rows" -> "rows"
      [] a = "Columns" -> "columns"
      [] a = "BitsStored" -> "bits_stored"
      [] a = "PhotometricInterpretation" -> "photometric"

MetadataFields == {FieldOf(a) : a \in Attributes}
AttributeOf(f) == CHOOSE a \in Attributes : FieldOf(a) = f

\* The value a header holds for an attribute it has.  A patient name is a
\* PersonName object, written PersonName(...), not a string.
HeaderValue(a) ==
    CASE a = "PatientID" -> "P001"
      [] a = "PatientName" -> "PersonName(DOE^JANE)"
      [] a = "StudyDate" -> "20240101"
      [] a = "StudyDescription" -> "CHEST"
      [] a = "Modality" -> "CT"
      [] a = "Rows" -> 2
      [] a = "Columns" -> 3
      [] a = "BitsStored" -> 12
      [] a = "PhotometricInterpretation" -> "MONOCHROME2"

\* str(): a PersonName gives its text, a string is itself.
Str(v) == IF v = "PersonName(DOE^JANE)" THEN "DOE^JANE" ELSE v

\* A variant of getattr that gives an attribute's value only when the header
\* is complete.
GetAttr_complete_only(h, a, default) ==
    IF h = Attributes THEN HeaderValue(a) ELSE default

\* getattr(ds, a, default).
GetAttr(h, a, default) == IF a \in h THEN HeaderValue(a) ELSE default

extract_dicom_metadata(h) ==
    [f \in MetadataFields |->
        LET a == AttributeOf(f)
        IN  IF a = "PatientName" THEN Str(GetAttr(h, a, "Unknown"))
            ELSE IF a \in NumericAttributes THEN GetAttr(h, a, 0)
            ELSE GetAttr(h, a, "Unknown")]

\* The headers the conversion calls are tried on.
HeaderSamples == {{}, Attributes}

\* ------------------------------------------------------------------ state
VARIABLES
    shape,              \* shape of the dataset's pixel array
    file,               \* the input file as the current call finds it
    frameOut,           \* frame index -> call that wrote <base>_frame_NNNN.dzi
    singleOut,          \* call that wrote <base>.dzi
    manifest,           \* <base>_series.json
    temps,              \* temporary PNG files of the current call still on disk
    pc,                 \* "start", "loop" (inside the frame loop), "returned"
    call,               \* the function called last
    frame_number,       \* its frame_number argument
    total_frames,
    frames_to_convert,
    idx,                \* position of the loop in frames_to_convert
    converted_count,
    failed_count,
    result,             \* the call's return value
    runNo,              \* number of calls made so far
    startOut,           \* frameOut when the current call began
    startSingle,        \* singleOut when the current call began
    startManifest,      \* manifest when the current call began
    attempted,          \* frames the current call handed to dicom_to_image
    skipped,            \* frames the current call skipped as already present
    converted,          \* frames the current call tiled
    failed,             \* frames whose conversion raised in the current call
    manifestWrites,     \* manifest writes of the current call
    reads,              \* times the current call read the input file
    img_request,        \* SpecImage: the frame_index handed to dicom_to_image
    img_result,         \* SpecImage: what dicom_to_image gave
    ds,                 \* SpecNorm: the selected frame's pixels and attributes
    build,              \* SpecNorm: how the build casts a float outside 0..255
    raster,             \* SpecNorm: the normalized raster, <<>> before the call
    header,             \* the descriptive attributes the dataset's header holds
    metadata,           \* SpecMeta: what extract_dicom_metadata gave
    tile_size,          \* the current call's tile_size argument
    quality             \* the current call's quality argument

vars == <<shape, file, frameOut, singleOut, manifest, temps, pc, call,
          frame_number, total_frames, frames_to_convert, idx, converted_count,
          failed_count, result, runNo, startOut, startSingle, startManifest,
          attempted, skipped, converted, failed, manifestWrites, reads,
          img_request, img_result, ds, build, raster, header, metadata,
          tile_size, quality>>

\* What the conversion calls leave alone: the loaded dataset is not modified.
datasetVars == <<ds, build, raster, header, metadata>>

\* The tiling arguments of the call in progress.
argVars == <<tile_size, quality>>

NoManifest == [total_frames |-> 0, converted_frames |-> 0]
NoResult == Outcome("none", 0, <<>>, "-")
NoMetadata == [a \in {} |-> "-"]

\* The pixel variables of a specification that does not normalize a frame.
IdlePixels ==
    /\ ds = NoDataset
    /\ build = "wrap"
    /\ raster = <<>>

\* An empty output directory and no call made yet.
InitDirectory ==
    /\ file = "ok"
    /\ frameOut = [f \in FrameIds |-> 0]
    /\ singleOut = 0
    /\ manifest = NoManifest
    /\ temps = 0
    /\ pc = "start"
    /\ call = "none"
    /\ frame_number = None
    /\ total_frames = 0
    /\ frames_to_convert = <<>>
    /\ idx = 1
    /\ converted_count = 0
    /\ failed_count = 0
    /\ result = "none"
    /\ runNo = 0
    /\ startOut = [f \in FrameIds |-> 0]
    /\ startSingle = 0
    /\ startManifest = NoManifest
    /\ attempted = {}
    /\ skipped = {}
    /\ converted = {}
    /\ failed = {}
    /\ manifestWrites = 0
    /\ reads = 0
    /\ tile_size = 256
    /\ quality = 90

Init ==
    /\ shape \in BatchShapes
    /\ InitDirectory
    /\ img_request = None
    /\ img_result = NoResult
    /\ IdlePixels
    /\ header \in HeaderSamples
    /\ metadata = NoMetadata

\* ------------------------------------------------- SpecImage: one call
InitImage ==
    /\ shape \in AllShapes
    /\ InitDirectory
    /\ img_request \in FrameRequests
    /\ img_result = NoResult
    /\ IdlePixels
    /\ header = {}
    /\ metadata = NoMetadata

CallDicomToImage ==
    /\ img_result = NoResult
    /\ img_result' = dicom_to_image(file, shape, img_request)
    /\ UNCHANGED <<shape, file, frameOut, singleOut, manifest, temps, pc, call,
                   frame_number, total_frames, frames_to_convert, idx,
                   converted_count, failed_count, result, runNo, startOut,
                   startSingle, startManifest, attempted, skipped, converted,
                   failed, manifestWrites, reads, img_request>>
    /\ UNCHANGED <<datasetVars, argVars>>

NextImage == CallDicomToImage

SpecImage == InitImage /\ [][NextImage]_vars

\* ------------------------------------- SpecNorm: one frame is normalized
InitNorm ==
    /\ shape = <<1, 3>>
    /\ InitDirectory
    /\ img_request = None
    /\ img_result = NoResult
    /\ \E signed \in BOOLEAN, rs \in RescaleSamples, w \in WindowSamples,
          ph \in PhotometricSamples :
           \E px \in [1..3 -> PixelSamples(signed)] :
               ds = Dataset(px, signed, rs, w, ph)
    /\ build \in Builds
    /\ raster = <<>>
    /\ header = {}
    /\ metadata = NoMetadata

NormalizeFrame ==
    /\ raster = <<>>
    /\ raster' = NormalizedRaster(ds, build)
    /\ UNCHANGED <<shape, file, frameOut, singleOut, manifest, temps, pc, call,
                   frame_number, total_frames, frames_to_convert, idx,
                   converted_count, failed_count, result, runNo, startOut,
                   startSingle, startManifest, attempted, skipped, converted,
                   failed, manifestWrites, reads, img_request, img_result,
                   ds, build, header, metadata, tile_size, quality>>

NextNorm == NormalizeFrame

SpecNorm == InitNorm /\ [][NextNorm]_vars

\* --------------------------------- SpecMeta: the metadata of one header
InitMeta ==
    /\ shape = <<2, 3>>
    /\ InitDirectory
    /\ img_request = None
    /\ img_result = NoResult
    /\ IdlePixels
    /\ header \in SUBSET Attributes
    /\ metadata = NoMetadata

ExtractMetadata ==
    /\ metadata = NoMetadata
    /\ metadata' = extract_dicom_metadata(header)
    /\ UNCHANGED <<shape, file, frameOut, singleOut, manifest, temps, pc, call,
                   frame_number, total_frames, frames_to_convert, idx,
                   converted_count, failed_count, result, runNo, startOut,
                   startSingle, startManifest, attempted, skipped, converted,
                   failed, manifestWrites, reads, img_request, img_result,
                   ds, build, raster, header, tile_size, quality>>

NextMeta == ExtractMetadata

SpecMeta == InitMeta /\ [][NextMeta]_vars

\* ------------------------------------------------ convert_dicom_multiframe
RaisedKinds == {"LoadError", "FrameIndexError", "Unsupported", "RasterError"}

\* frames_to_convert: the one requested frame, or range(total_frames).
FramesToConvert(fn, total) ==
    IF fn # None THEN <<fn[1]>> ELSE [i \in 1..total |-> i - 1]

\* A variant of the exists check that never finds the output.
FrameExists_never(out, f) == FALSE

\* A variant of the exists check that finds the output of any frame.
FrameExists_any(out, f) == \E g \in DOMAIN out : out[g] # 0

\* dzi_path.exists() for a frame's output.
FrameExists(out, f) == out[f] # 0

\* base_name: the output name given, or the stem of the input path.
BaseName == "series"

\* The tiling arguments main() passes: a --tile-size choice and a --quality.
TilingSamples ==
    {[tile_size |-> 256, quality |-> 90], [tile_size |-> 512, quality |-> 75]}

\* A variant of series_data that reports every frame of the series converted.
SeriesData_total(total, count, md, ts, q) ==
    [base_name |-> BaseName, total_frames |-> total,
     converted_frames |-> total, metadata |-> md, tile_size |-> ts,
     quality |-> q]

\* A variant of series_data that records the default tiling parameters.
SeriesData_default_tiling(total, count, md, ts, q) ==
    [base_name |-> BaseName, total_frames |-> total,
     converted_frames |-> count, metadata |-> md, tile_size |-> 256,
     quality |-> 90]

\* The series_data written to <base>_series.json.
SeriesData(total, count, md, ts, q) ==
    [base_name |-> BaseName, total_frames |-> total,
     converted_frames |-> count, metadata |-> md, tile_size |-> ts,
     quality |-> q]

\* What every call does first: the marks of a new call.
BeginCall(name, fn, fs) ==
    /\ pc # "loop"
    /\ runNo < MaxRuns
    /\ runNo' = runNo + 1
    /\ call' = name
    /\ frame_number' = fn
    /\ file' = fs
    /\ startOut' = frameOut
    /\ startSingle' = singleOut
    /\ startManifest' = manifest
    /\ attempted' = {}
    /\ skipped' = {}
    /\ converted' = {}
    /\ failed' = {}
    /\ manifestWrites' = 0
    /\ converted_count' = 0
    /\ failed_count' = 0
    /\ idx' = 1
    /\ \E t \in TilingSamples :
         tile_size' = t.tile_size /\ quality' = t.quality
    /\ UNCHANGED datasetVars

\* The call returns False before the frame loop.
ReturnFalseEarly ==
    /\ pc' = "returned"
    /\ result' = "False"
    /\ total_frames' = 0
    /\ frames_to_convert' = <<>>

\* A variant that goes on whatever the first call gave.
EntersLoop_always(r) == TRUE

\* Whether the first dicom_to_image call lets the batch go on to the loop.
EntersLoop(r) == r.kind \notin RaisedKinds /\ r.total_frames # 1

\* The frames the call is to convert, as the first dicom_to_image call of a
\* call on this file and frame_number gives them.
FramesOfCall(fn, fs) ==
    FramesToConvert(fn, dicom_to_image(fs, shape, None).total_frames)

\* order holds the frames of seq, each once.
IsScheduleOf(order, seq) ==
    /\ Len(order) = Len(seq)
    /\ {order[i] : i \in 1..Len(order)} = {seq[i] : i \in 1..Len(seq)}

\* convert_dicom_multiframe up to the frame loop: the file check, the first
\* dicom_to_image call, the single-frame refusal, the frames to convert, to
\* be taken in the given order.
StartMultiframeIn(fn, fs, order) ==
    /\ IsScheduleOf(order, FramesOfCall(fn, fs))
    /\ BeginCall("multiframe", fn, fs)
    /\ temps' = 0
    /\ IF fs = "missing"
         THEN reads' = 0 /\ ReturnFalseEarly
         ELSE LET r == dicom_to_image(fs, shape, None)
              IN  /\ reads' = 1
                  /\ IF EntersLoop(r)
                       THEN /\ pc' = "loop"
                            /\ result' = "running"
                            /\ total_frames' = r.total_frames
                            /\ frames_to_convert' = order
                       ELSE ReturnFalseEarly
    /\ UNCHANGED <<shape, frameOut, singleOut, manifest, img_request,
                   img_result>>

\* convert_dicom_multiframe as written: the loop takes the frames in the
\* order of frames_to_convert.
StartMultiframe(fn, fs) == StartMultiframeIn(fn, fs, FramesOfCall(fn, fs))

InLoop == pc = "loop" /\ idx <= Len(frames_to_convert)
frame_idx == frames_to_convert[idx]

LoopFrame ==
    UNCHANGED <<datasetVars, argVars>> /\
    UNCHANGED <<shape, file, singleOut, manifest, pc, call, frame_number,
                total_frames, frames_to_convert, result, runNo, startOut,
                startSingle, startManifest, manifestWrites, img_request,
                img_result>>

\* A variant of the skip that counts the skipped frame as converted.
SkipFrame_counted ==
    /\ InLoop
    /\ FrameExists(frameOut, frame_idx)
    /\ skipped' = skipped \cup {frame_idx}
    /\ converted_count' = converted_count + 1
    /\ idx' = idx + 1
    /\ LoopFrame
    /\ UNCHANGED <<frameOut, temps, failed_count, attempted, converted,
                   failed, reads>>

\* The frame's output exists: continue with the next frame.
SkipFrame ==
    /\ InLoop
    /\ FrameExists(frameOut, frame_idx)
    /\ skipped' = skipped \cup {frame_idx}
    /\ idx' = idx + 1
    /\ LoopFrame
    /\ UNCHANGED <<frameOut, temps, converted_count, failed_count, attempted,
                   converted, failed, reads>>

\* A variant of the handler that gives the whole series up.
FrameFailed_aborts(leaked) ==
    /\ failed_count' = failed_count + 1
    /\ failed' = failed \cup {frame_idx}
    /\ attempted' = attempted \cup {frame_idx}
    /\ reads' = reads + 1
    /\ temps' = temps + leaked
    /\ idx' = idx + 1
    /\ pc' = "returned"
    /\ result' = "False"
    /\ UNCHANGED <<shape, file, singleOut, manifest, call, frame_number,
                   total_frames, frames_to_convert, runNo, startOut,
                   startSingle, startManifest, manifestWrites, img_request,
                   img_result, frameOut, converted_count, converted,
                   skipped>>
    /\ UNCHANGED <<datasetVars, argVars>>

\* The handler of a frame's exception: the frame is counted as failed.
FrameFailed(leaked) ==
    /\ failed_count' = failed_count + 1
    /\ failed' = failed \cup {frame_idx}
    /\ attempted' = attempted \cup {frame_idx}
    /\ reads' = reads + 1
    /\ temps' = temps + leaked
    /\ idx' = idx + 1
    /\ LoopFrame
    /\ UNCHANGED <<frameOut, converted_count, converted, skipped>>

\* dicom_to_image raises for this frame (the file read again, as found now).
FrameExtractFails(fs) ==
    /\ InLoop
    /\ ~FrameExists(frameOut, frame_idx)
    /\ dicom_to_image(fs, shape, Some(frame_idx)).kind # "image"
    /\ FrameFailed(0)

\* frame_image.save raises: the temporary file is not removed.
FrameSaveFails ==
    /\ InLoop
    /\ ~FrameExists(frameOut, frame_idx)
    /\ dicom_to_image("ok", shape, Some(frame_idx)).kind = "image"
    /\ FrameFailed(1)

\* dzsave raises: the temporary file is not removed.
FrameTileFails ==
    /\ InLoop
    /\ ~FrameExists(frameOut, frame_idx)
    /\ dicom_to_image("ok", shape, Some(frame_idx)).kind = "image"
    /\ FrameFailed(1)

\* The frame is extracted, saved, tiled, and the temporary file removed.
ConvertFrame ==
    /\ InLoop
    /\ ~FrameExists(frameOut, frame_idx)
    /\ dicom_to_image("ok", shape, Some(frame_idx)).kind = "image"
    /\ frameOut' = [frameOut EXCEPT ![frame_idx] = runNo]
    /\ converted_count' = converted_count + 1
    /\ converted' = converted \cup {frame_idx}
    /\ attempted' = attempted \cup {frame_idx}
    /\ reads' = reads + 1
    /\ idx' = idx + 1
    /\ LoopFrame
    /\ UNCHANGED <<temps, failed_count, failed, skipped>>

\* A variant of the end of the call that writes the manifest only when no
\* frame failed, and returns False otherwise.
WriteManifest_if_clean ==
    /\ pc = "loop"
    /\ idx > Len(frames_to_convert)
    /\ IF failed_count = 0
         THEN /\ manifest' = SeriesData(total_frames, converted_count,
                                   extract_dicom_metadata(header),
                                   tile_size, quality)
              /\ manifestWrites' = manifestWrites + 1
              /\ result' = "True"
         ELSE /\ result' = "False"
              /\ UNCHANGED <<manifest, manifestWrites>>
    /\ pc' = "returned"
    /\ UNCHANGED <<shape, file, frameOut, singleOut, temps, call, frame_number,
                   total_frames, frames_to_convert, idx, converted_count,
                   failed_count, runNo, startOut, startSingle, startManifest,
                   attempted, skipped, converted, failed, reads, img_request,
                   img_result>>
    /\ UNCHANGED <<datasetVars, argVars>>

\* After the loop: the manifest is written and the call returns True.
WriteManifest ==
    /\ pc = "loop"
    /\ idx > Len(frames_to_convert)
    /\ manifest' = SeriesData(total_frames, converted_count,
                                   extract_dicom_metadata(header),
                                   tile_size, quality)
    /\ manifestWrites' = manifestWrites + 1
    /\ pc' = "returned"
    /\ result' = "True"
    /\ UNCHANGED <<shape, file, frameOut, singleOut, temps, call, frame_number,
                   total_frames, frames_to_convert, idx, converted_count,
                   failed_count, runNo, startOut, startSingle, startManifest,
                   attempted, skipped, converted, failed, reads, img_request,
                   img_result>>
    /\ UNCHANGED <<datasetVars, argVars>>

\* ---------------------------------------------------- convert_dicom_to_dzi
\* convert_dicom_to_dzi as one step.  overwrite is the answer to the prompt
\* shown when the output exists; fault is where the conversion raises, if
\* anywhere ("save": image.save, "tile": dzsave, "none").
convert_dicom_to_dzi(fs, overwrite, fault) ==
    /\ BeginCall("single", None, fs)
    /\ pc' = "returned"
    /\ total_frames' = 0
    /\ frames_to_convert' = <<>>
    /\ LET r == dicom_to_image(fs, shape, None)
           refused == fs = "missing" \/ (singleOut # 0 /\ ~overwrite)
       IN  /\ reads' = IF refused THEN 0 ELSE 1
           /\ IF refused \/ r.kind # "image"
                THEN result' = "False" /\ temps' = 0 /\ UNCHANGED singleOut
              ELSE IF fault = "save"
                THEN result' = "False" /\ temps' = 1 /\ UNCHANGED singleOut
              ELSE IF fault = "tile"
                THEN result' = "False" /\ temps' = 0 /\ UNCHANGED singleOut
              ELSE result' = "True" /\ temps' = 0 /\ singleOut' = runNo + 1
    /\ UNCHANGED <<shape, frameOut, manifest, img_request, img_result>>

Next ==
    \/ \E fn \in {None} \cup {Some(i) : i \in FrameIds}, fs \in FileStates :
           StartMultiframe(fn, fs)
    \/ SkipFrame
    \/ \E fs \in FileStates : FrameExtractFails(fs)
    \/ FrameSaveFails
    \/ FrameTileFails
    \/ ConvertFrame
    \/ WriteManifest
    \/ \E fs \in FileStates, overwrite \in BOOLEAN,
          fault \in {"none", "save", "tile"} :
           convert_dicom_to_dzi(fs, overwrite, fault)

Spec == Init /\ [][Next]_vars

\* The calls run to completion: a loop that can step does step.
FairSpec ==
    Spec /\ WF_vars(SkipFrame \/ (\E fs \in FileStates : FrameExtractFails(fs))
                       \/ FrameSaveFails \/ FrameTileFails \/ ConvertFrame)
         /\ WF_vars(WriteManifest)

\* ------------------- SpecWorkers: the frames of a batch taken in any order
\* The per-frame step (exists check and conversion) and the manifest write
\* are single steps, so the interleavings of workers that share the frames of
\* a batch are the orders in which the frames can be taken.
StackShapes == {<<n, h, 2>> : n \in 2..MaxFrames, h \in 1..2}

\* The orders in which the frames of seq can be taken.
SchedulesOf(seq) ==
    {order \in [1..Len(seq) -> {seq[i] : i \in 1..Len(seq)}] :
        IsScheduleOf(order, seq)}

InitWorkers ==
    /\ shape \in StackShapes
    /\ InitDirectory
    /\ img_request = None
    /\ img_result = NoResult
    /\ IdlePixels
    /\ header = Attributes
    /\ metadata = NoMetadata

StartWorkers(fn, fs, order) ==
    /\ runNo < WorkerRuns
    /\ StartMultiframeIn(fn, fs, order)

NextWorkers ==
    \/ \E fn \in {None} \cup {Some(i) : i \in FrameIds}, fs \in FileStates :
           \E order \in SchedulesOf(FramesOfCall(fn, fs)) :
               StartWorkers(fn, fs, order)
    \/ SkipFrame
    \/ \E fs \in FileStates : FrameExtractFails(fs)
    \/ FrameSaveFails
    \/ FrameTileFails
    \/ ConvertFrame
    \/ WriteManifest

SpecWorkers == InitWorkers /\ [][NextWorkers]_vars

\* ------------------------------------------------------------ properties
Requested == {frames_to_convert[i] : i \in 1..Len(frames_to_convert)}
Existing(out) == {f \in FrameIds : out[f] # 0}

\* The layout an outcome of dicom_to_image stands for.
LayoutOf(r) ==
    CASE r.kind = "image" /\ r.mode = "RGB" -> "ColorRGB"
      [] r.kind = "image" /\ r.mode = "L" /\ r.total_frames = 1 -> "Single2D"
      [] r.kind = "image" /\ r.mode = "L" /\ r.total_frames # 1
             -> "MultiFrameStack"
      [] r.kind \in {"needs_frame", "FrameIndexError"} -> "MultiFrameStack"
      [] r.kind = "Unsupported" -> "Unsupported"
      [] OTHER -> "none"

\* C1: every call of dicom_to_image, for every shape of 1, 2, 3 or more
\* dimensions and every frame request, ends in the outcome of one of the four
\* layouts (Single2D, ColorRGB, MultiFrameStack, Unsupported) and in no other
\* failure.  (SpecImage)
C1_ClassificationTotal ==
    img_result # NoResult =>
        LayoutOf(img_result) \in
            {"Single2D", "ColorRGB", "MultiFrameStack", "Unsupported"}

\* C2: for a stack of N frames, dicom_to_image with frame_index = i gives a
\* raster if and only if 0 <= i < N, and the frame-index error for every
\* other i.  (SpecImage)
C2_FrameBounds ==
    (img_result # NoResult /\ IsStack(shape) /\ img_request # None) =>
        IF 0 <= img_request[1] /\ img_request[1] < shape[1]
          THEN img_result.kind = "image"
          ELSE img_result.kind = "FrameIndexError"

\* C3: once a batch call has returned, the manifest's converted_frames is the
\* number of frames of the series whose output exists.
C3_ManifestTrueCount ==
    (pc = "returned" /\ manifest # NoManifest) =>
        manifest.converted_frames = Cardinality(Existing(frameOut))

\* C4: a batch call that found no output of a requested frame and in which k
\* of the n requested frames failed writes converted_frames = n - k.
C4_ManifestHonesty ==
    (call = "multiframe" /\ pc = "returned" /\ result = "True"
       /\ Requested \cap Existing(startOut) = {}) =>
        /\ manifestWrites = 1
        /\ manifest.converted_frames =
               Len(frames_to_convert) - Cardinality(failed)

C4_Witness ==
    /\ call = "multiframe" /\ pc = "returned" /\ result = "True"
    /\ Requested \cap Existing(startOut) = {}
    /\ Len(frames_to_convert) = MaxFrames
    /\ Cardinality(failed) = 1
    /\ manifest.converted_frames = MaxFrames - 1

\* C5: a batch call attempts exactly the requested frames whose output did
\* not exist; a frame whose output existed is skipped, is not handed to
\* dicom_to_image or the tiler, and its output stays as it was.
C5_Resumability ==
    call = "multiframe" =>
        LET done == {frames_to_convert[i] : i \in 1..(idx - 1)}
        IN  /\ attempted = {f \in done : startOut[f] = 0}
            /\ skipped = {f \in done : startOut[f] # 0}
            /\ converted \cup failed = attempted
            /\ \A f \in Existing(startOut) : frameOut[f] = startOut[f]

C5_Witness ==
    /\ call = "multiframe" /\ pc = "returned" /\ result = "True"
    /\ frame_number = None
    /\ skipped # {}
    /\ converted # {}
    /\ \A f \in skipped : frameOut[f] = startOut[f] /\ frameOut[f] < runNo
    /\ \A f \in converted : frameOut[f] = runNo

\* C6: a frame's failure does not end the batch: the call stays in the loop
\* or returns True with the manifest written, and on return every requested
\* frame was skipped, converted or recorded as failed (one of the three).
C6_FailureIsolation ==
    (call = "multiframe" /\ failed # {}) =>
        /\ pc = "loop" \/ (pc = "returned" /\ result = "True"
                             /\ manifestWrites = 1)
        /\ pc = "returned" =>
               /\ Requested = skipped \cup converted \cup failed
               /\ skipped \cap converted = {}
               /\ skipped \cap failed = {}
               /\ converted \cap failed = {}

C6_Witness ==
    /\ call = "multiframe" /\ pc = "returned" /\ result = "True"
    /\ \E i, j \in 1..Len(frames_to_convert) :
           /\ i < j
           /\ frames_to_convert[i] \in failed
           /\ frames_to_convert[j] \in converted

C8_FatalBoundary ==
    (call = "multiframe" /\ pc = "returned"
       /\ (file # "ok" \/ Len(shape) = 1 \/ Len(shape) > 3)) =>
        /\ result = "False"
        /\ attempted = {}
        /\ converted = {}
        /\ frameOut = startOut
        /\ manifest = startManifest
        /\ manifestWrites = 0

C8_Witness ==
    /\ call = "multiframe" /\ pc = "returned" /\ result = "False"
    /\ file # "ok"
    /\ manifest # NoManifest
    /\ Existing(frameOut) # {}

\* C9: a batch call for one frame whose index lies outside [0, N) reports
\* failure.
C9_OutOfRangeSurfaced ==
    (call = "multiframe" /\ pc = "returned" /\ total_frames > 1
       /\ frame_number # None
       /\ (frame_number[1] < 0 \/ frame_number[1] >= total_frames)) =>
        result = "False"

\* C10: for a stack of N > 1 frames and no frame index, dicom_to_image gives
\* the signal (no image, total_frames = N), and convert_dicom_to_dzi returns
\* False leaving every output, the manifest and the temporary files as they
\* were.
C10_Disambiguation ==
    (call = "single" /\ pc = "returned" /\ file = "ok"
       /\ IsStack(shape) /\ shape[1] > 1) =>
        /\ dicom_to_image(file, shape, None)
               = Outcome("needs_frame", shape[1], <<>>, "-")
        /\ result = "False"
        /\ singleOut = startSingle
        /\ frameOut = startOut
        /\ manifest = startManifest
        /\ temps = 0

C10_Witness ==
    /\ call = "single" /\ pc = "returned" /\ file = "ok"
    /\ IsStack(shape) /\ shape[1] > 1
    /\ result = "False"
    /\ manifest # NoManifest
    /\ Existing(frameOut) # {}

\* The spatial dimensions of the frame dicom_to_image selects from a shape.
SelectedFrame(s) == IF IsStack(s) THEN Tail(s) ELSE s

\* C11: a shape (1, H, W) whose last dimension is not 3, with no frame index
\* given, gives the grayscale raster of shape (H, W) of its only frame, with
\* total_frames = 1 and no request for a frame.  (SpecImage)
C11_SqueezeCorrectness ==
    (img_result # NoResult /\ img_request = None
       /\ Len(shape) = 3 /\ shape[1] = 1 /\ shape[3] # 3) =>
        img_result = Outcome("image", 1, <<shape[2], shape[3]>>, "L")

\* C12: every shape (H, W) of two dimensions, H >= 1 and W >= 1, is accepted
\* and gives a grayscale raster.  (SpecImage)
C12_TwoDimensionsAccepted ==
    (img_result # NoResult /\ Len(shape) = 2) =>
        /\ img_result.kind = "image"
        /\ img_result.mode = "L"

\* C13: every shape of more than three dimensions fails with the
\* unsupported-layout error and gives no raster.  (SpecImage)
C13_HighRankUnsupported ==
    (img_result # NoResult /\ Len(shape) > 3) =>
        img_result.kind = "Unsupported"

\* C14: every shape (H, W, 3) is a colour image: total_frames = 1, no frame
\* signal and no frame-index check, and the raster is RGB.  (SpecImage)
C14_ColorRGB ==
    (img_result # NoResult /\ Len(shape) = 3 /\ shape[3] = 3) =>
        /\ img_result.kind = "image"
        /\ img_result.mode = "RGB"
        /\ img_result.total_frames = 1

\* The shapes the layout rules call Single2D or ColorRGB: two dimensions,
\* (H, W, 3), and (1, H, W).
IsSingleLayout(s) ==
    \/ Len(s) = 2
    \/ Len(s) = 3 /\ (s[3] = 3 \/ s[1] = 1)

\* C15: for a Single2D or ColorRGB layout the frame request is ignored: for
\* every requested index the outcome is the one given without a request, and
\* it is never the frame-index error or the request for a frame.  (SpecImage)
C15_RequestIgnored ==
    (img_result # NoResult /\ IsSingleLayout(shape)) =>
        /\ img_result = dicom_to_image(file, shape, None)
        /\ img_result.kind \notin {"FrameIndexError", "needs_frame"}

\* C16: a raster given by dicom_to_image has the shape of the selected frame,
\* (H, W) in mode L or (H, W, 3) in mode RGB, no dimension dropped or added.
\* (SpecImage; the range of the elements is the 8-bit cast of the raster.)
C16_RasterShape ==
    (img_result # NoResult /\ img_result.kind = "image") =>
        /\ img_result.shape = SelectedFrame(shape)
        /\ img_result.mode = (IF Len(img_result.shape) = 2 THEN "L" ELSE "RGB")
        /\ Len(shape) <= 3

\* ------------------------------------------------ claims on the raster
Normalized == raster # <<>>
Identical(s) == \A i, j \in 1..Len(s) : s[i] = s[j]
AllEqualTo(s, v) == \A i \in 1..Len(s) : s[i] = v

\* Every element of a normalized raster is a byte (the range part of the
\* raster contract).
RasterInRange == Normalized => \A i \in 1..Len(raster) : raster[i] \in 0..255

\* C17: a frame whose values are all identical, as stored or after rescale and
\* windowing, normalizes to all 0, or to all 255 when the photometric
\* interpretation is MONOCHROME1; nothing is divided by zero.
C17_DegenerateNormalization ==
    (Normalized /\ Identical(Transformed(ds))) =>
        /\ SeqMax(Shifted(ds)) = 0
        /\ Len(raster) = Len(ds.px)
        /\ IF Photometric(ds) = "MONOCHROME1" THEN AllEqualTo(raster, 255)
           ELSE AllEqualTo(raster, 0)

\* C17's case: pixels that differ as stored are made identical by the window
\* of a MONOCHROME1 frame, and the raster is all 255.
C17_Witness ==
    /\ Normalized
    /\ ~Identical(ds.px)
    /\ HasWindow(ds)
    /\ Identical(Transformed(ds))
    /\ Photometric(ds) = "MONOCHROME1"
    /\ AllEqualTo(raster, 255)

\* C18: for the same pixel data and parameters, the MONOCHROME1 raster is
\* 255 minus the MONOCHROME2 raster at every pixel.
C18_InversionRelation ==
    (Normalized /\ Photometric(ds) = "MONOCHROME1") =>
        LET mono2 == NormalizedRaster(
                [ds EXCEPT !.PhotometricInterpretation = Some("MONOCHROME2")],
                build)
        IN  /\ Len(raster) = Len(mono2)
            /\ \A p \in 1..Len(raster) : raster[p] = 255 - mono2[p]

\* C18's case: a MONOCHROME1 frame with differing values, whose raster holds
\* the black of its brightest pixel.
C18_Witness ==
    /\ Normalized
    /\ Photometric(ds) = "MONOCHROME1"
    /\ ~Identical(Transformed(ds))
    /\ \E p \in 1..Len(raster) : raster[p] = 0 /\ ds.px[p] = SeqMax(ds.px)
    /\ \E p \in 1..Len(raster) : raster[p] \notin {0, 255}

\* --------------------------------------------- claims on the metadata
Extracted == metadata # NoMetadata

\* C19: extract_dicom_metadata gives all nine fields for any header; an
\* absent text attribute gives "Unknown", an absent numeric attribute (rows,
\* columns, bits_stored) gives 0, each field independently of the others, and
\* a present attribute gives its own value.
C19_MetadataDefaults ==
    Extracted =>
        /\ DOMAIN metadata = MetadataFields
        /\ Cardinality(MetadataFields) = 9
        /\ \A a \in TextAttributes \ header : metadata[FieldOf(a)] = "Unknown"
        /\ \A a \in NumericAttributes \ header : metadata[FieldOf(a)] = 0
        /\ \A a \in header \ {"PatientName"} :
               metadata[FieldOf(a)] = HeaderValue(a)
        /\ "PatientName" \in header => metadata.patient_name = "DOE^JANE"

\* C19's case: a header with some attributes of each kind and without others,
\* whose fields are defaulted one by one.
C19_Witness ==
    /\ Extracted
    /\ header = {"PatientName", "Rows"}
    /\ metadata.patient_name = "DOE^JANE"
    /\ metadata.patient_id = "Unknown"
    /\ metadata.rows = 2
    /\ metadata.columns = 0

\* ------------------------------------------- claims on the manifest
\* The manifest fields the gallery index reads (generate_index.get_dzi_files).
GalleryReads ==
    {"base_name", "total_frames", "converted_frames", "metadata", "tile_size",
     "quality"}

\* C20: the manifest a batch call writes has exactly the fields base_name,
\* total_frames, converted_frames, metadata, tile_size and quality, and its
\* metadata exactly the nine descriptive fields; total_frames is the number of
\* frames of the stack, and tile_size and quality are the call's arguments.
C20_ManifestSchema ==
    (pc = "returned" /\ manifestWrites = 1) =>
        /\ DOMAIN manifest =
             {"base_name", "total_frames", "converted_frames", "metadata",
              "tile_size", "quality"}
        /\ DOMAIN manifest = GalleryReads
        /\ DOMAIN manifest.metadata =
             {"patient_id", "patient_name", "study_date", "study_description",
              "modality", "rows", "columns", "bits_stored", "photometric"}
        /\ manifest.metadata = extract_dicom_metadata(header)
        /\ manifest.total_frames = shape[1]
        /\ manifest.tile_size = tile_size
        /\ manifest.quality = quality

\* C20's case: a call with tiling arguments other than the defaults, on a
\* directory whose manifest an earlier call wrote with the defaults, writes
\* its own arguments and the header's metadata.
C20_Witness ==
    /\ pc = "returned" /\ manifestWrites = 1
    /\ startManifest # NoManifest
    /\ startManifest.tile_size = 256
    /\ tile_size = 512
    /\ manifest.tile_size = 512 /\ manifest.quality = 75
    /\ manifest.total_frames = MaxFrames
    /\ manifest.metadata.modality = "CT"
    /\ manifest.metadata.rows = 2

\* ------------------------------------- claims on the pixel pipeline
\* The array handed to the normalization, in half units whatever its type.
TransformedHalves(d) ==
    IF IsFloating(d) THEN Transformed(d)
    ELSE [i \in 1..Len(d.px) |-> 2 * d.px[i]]

\* The subtraction of the minimum stays inside the stored type.
ShiftExact(d) ==
    \A i \in 1..Len(d.px) :
        Shifted(d)[i] = Transformed(d)[i] - SeqMin(Transformed(d))

\* num / den rounded to the nearest integer, halves upward (num >= 0, den > 0).
RoundDiv(num, den) == (2 * num + den) \div (2 * den)

\* C21: each value v of a non-constant frame maps to
\* round(255 * (v - min) / (max - min)), min and max taken over the frame
\* after rescale and windowing.  Stated on the frames whose shift is exact,
\* and on the raster before the photometric correction.
C21_RoundToNearest ==
    (Normalized /\ ~Identical(Transformed(ds)) /\ ShiftExact(ds)) =>
        LET a == Transformed(ds)
        IN  \A i \in 1..Len(a) :
                Scaled(ds, build)[i] =
                    RoundDiv(255 * (a[i] - SeqMin(a)), SeqMax(a) - SeqMin(a))

\* The rescale with each coefficient defaulting on its own: slope 1 when no
\* slope is declared, intercept 0 when no intercept is declared.
DeclaredRescale(d, v) ==
    v * (IF d.RescaleSlope = None THEN 1 ELSE d.RescaleSlope[1])
      + (IF d.RescaleIntercept = None THEN 0 ELSE d.RescaleIntercept[1])

\* C22: the rescale is raw * slope + intercept with slope 1 and intercept 0
\* as independent defaults: a slope declared alone still multiplies and an
\* intercept declared alone still shifts.  Stated on the array handed to the
\* normalization of a frame without a window.
C22_RescaleDefaults ==
    (Normalized /\ ~HasWindow(ds)) =>
        \A i \in 1..Len(ds.px) :
            TransformedHalves(ds)[i] = 2 * DeclaredRescale(ds, ds.px[i])

\* C23: the rescale comes before the window, and with a window declared every
\* rescaled value is clipped exactly to [center - width/2, center + width/2],
\* the first center and width of a list.
C23_ClipAfterRescale ==
    (Normalized /\ HasWindow(ds)) =>
        \A i \in 1..Len(ds.px) :
            LET r == 2 * DeclaredRescale(ds, ds.px[i])
                v == TransformedHalves(ds)[i]
            IN  /\ ImgMin2(ds) <= v /\ v <= ImgMax2(ds)
                /\ r < ImgMin2(ds) => v = ImgMin2(ds)
                /\ r > ImgMax2(ds) => v = ImgMax2(ds)
                /\ (ImgMin2(ds) <= r /\ r <= ImgMax2(ds)) => v = r

\* What C23 says of the frames that declare both rescale coefficients or
\* neither: there the clip is exact and follows the rescale.
ClipExactWhenRescaleComplete ==
    (Normalized /\ HasWindow(ds)
       /\ (ds.RescaleSlope = None <=> ds.RescaleIntercept = None)) =>
        \A i \in 1..Len(ds.px) :
            LET r == 2 * DeclaredRescale(ds, ds.px[i])
                v == TransformedHalves(ds)[i]
            IN  /\ ImgMin2(ds) <= v /\ v <= ImgMax2(ds)
                /\ r < ImgMin2(ds) => v = ImgMin2(ds)
                /\ r > ImgMax2(ds) => v = ImgMax2(ds)
                /\ (ImgMin2(ds) <= r /\ r <= ImgMax2(ds)) => v = r

\* C24: windowing is idempotent: clipping the already clipped array again
\* with the same center and width gives the identical array, for every window
\* of width >= 0.
C24_ClipIdempotent ==
    (Normalized /\ HasWindow(ds) /\ ds.WindowWidth[1] >= 0) =>
        \A i \in 1..Len(ds.px) :
            Clip(Transformed(ds)[i], ImgMin2(ds), ImgMax2(ds))
                = Transformed(ds)[i]

\* C24's case: a window that clipped one pixel up to its lower bound and
\* another down to its upper bound, and left a third as it was.
C24_Witness ==
    /\ Normalized
    /\ HasWindow(ds)
    /\ \E i, j, k \in 1..Len(ds.px) :
          /\ 2 * Rescale(ds, ds.px[i]) < ImgMin2(ds) - 1
          /\ Transformed(ds)[i] = ImgMin2(ds)
          /\ 2 * Rescale(ds, ds.px[j]) > ImgMax2(ds)
          /\ Transformed(ds)[j] = ImgMax2(ds)
          /\ Transformed(ds)[k] = 2 * Rescale(ds, ds.px[k])

\* C25: the raster is inverted (255 - value) exactly when the photometric
\* interpretation is MONOCHROME1; with any other value, or none declared, the
\* scaled raster passes through.
C25_InvertIffMonochrome1 ==
    Normalized =>
        /\ Len(raster) = Len(ds.px)
        /\ \A p \in 1..Len(raster) :
              raster[p] =
                  IF ds.PhotometricInterpretation = Some("MONOCHROME1")
                    THEN 255 - Scaled(ds, build)[p]
                    ELSE Scaled(ds, build)[p]

\* C25's case: a non-constant frame that declares no interpretation, whose
\* brightest pixel stays white.
C25_Witness ==
    /\ Normalized
    /\ ds.PhotometricInterpretation = None
    /\ ShiftExact(ds)
    /\ \E p, q \in 1..Len(raster) :
          /\ ds.px[p] = SeqMax(ds.px) /\ raster[p] = 255
          /\ ds.px[q] = SeqMin(ds.px) /\ raster[q] = 0

\* C29: for every stored integer type, signed 16-bit data without rescale
\* attributes included, a non-constant frame has its minimum at 0 and its
\* maximum at 255 before any inversion, order is preserved, and subtracting
\* the minimum never wraps in the stored width.
C29_AnchoredAndMonotonic ==
    (Normalized /\ ~Identical(Transformed(ds))) =>
        LET a == Transformed(ds)
            s == Scaled(ds, build)
        IN  /\ ShiftExact(ds)
            /\ \A p \in 1..Len(a) : a[p] = SeqMin(a) => s[p] = 0
            /\ \A p \in 1..Len(a) : a[p] = SeqMax(a) => s[p] = 255
            /\ \A p, q \in 1..Len(a) : a[p] <= a[q] => s[p] <= s[q]

\* What C29 says of the frames whose array is floating point or unsigned:
\* there the extremes are anchored and order is preserved.
AnchoredWhenShiftExact ==
    (Normalized /\ ~Identical(Transformed(ds))
       /\ (IsFloating(ds) \/ ~ds.signed)) =>
        LET a == Transformed(ds)
            s == Scaled(ds, build)
        IN  /\ ShiftExact(ds)
            /\ \A p \in 1..Len(a) : a[p] = SeqMin(a) => s[p] = 0
            /\ \A p \in 1..Len(a) : a[p] = SeqMax(a) => s[p] = 255
            /\ \A p, q \in 1..Len(a) : a[p] <= a[q] => s[p] <= s[q]

\* --------------------------------------- claims on the batch run's steps
\* C26: one batch run reads the input file exactly once, before the frame
\* loop, and every frame of the run is taken from that one loaded dataset:
\* the file is not read again between frames.
C26_ReadOnce ==
    (call = "multiframe" /\ pc \in {"loop", "returned"} /\ file # "missing") =>
        reads = 1

\* C27: after convert_dicom_to_dzi or convert_dicom_multiframe returns, no
\* temporary file created during the call remains, also when saving the
\* raster or tiling a frame failed.
C27_TempFilesReleased ==
    pc = "returned" => temps = 0

\* The sequential loop over frames, started on the outputs out, with the
\* conversions of the frames in faulty raising: the outputs and the count of
\* converted frames it ends with.
RECURSIVE SequentialLoop(_, _, _, _)
SequentialLoop(frames, out, count, faulty) ==
    IF frames = <<>> THEN [out |-> out, converted_count |-> count]
    ELSE LET f == Head(frames)
         IN  IF FrameExists(out, f) \/ f \in faulty
               THEN SequentialLoop(Tail(frames), out, count, faulty)
               ELSE SequentialLoop(Tail(frames), [out EXCEPT ![f] = runNo],
                                   count + 1, faulty)

\* C28: frame conversions are independent.  A frame is skipped exactly when
\* its own output existed, and converted only if the dataset holds it; and in
\* whatever order the frames are taken, the batch ends with the frame outputs
\* and the converted_frames that the sequential loop ends with when the same
\* frames fail.  (SpecWorkers)
C28_OrderIndependence ==
    (call = "multiframe" /\ pc = "returned" /\ result = "True") =>
        LET sequential ==
                SequentialLoop(FramesOfCall(frame_number, "ok"), startOut, 0,
                               failed)
        IN  /\ skipped = Requested \cap Existing(startOut)
            /\ \A f \in converted :
                  dicom_to_image("ok", shape, Some(f)).kind = "image"
            /\ frameOut = sequential.out
            /\ manifest.converted_frames = sequential.converted_count

\* C28's case: the frames of a batch taken in descending order, of which one
\* is skipped, one fails and one is converted.
C28_Witness ==
    /\ call = "multiframe" /\ pc = "returned" /\ result = "True"
    /\ frame_number = None
    /\ Len(frames_to_convert) > 2
    /\ \A i \in 1..(Len(frames_to_convert) - 1) :
          frames_to_convert[i] > frames_to_convert[i + 1]
    /\ skipped # {} /\ failed # {} /\ converted # {}
    /\ manifest.converted_frames = Cardinality(converted)

\* C30: when the manifest is written every requested frame has been counted
\* exactly once as skipped, converted or failed, so converted_count +
\* failed_count + the number skipped is the number of requested frames;
\* converted_frames counts the frames converted in the current call only, not
\* the skipped ones, and never exceeds total_frames.
C30_CountsAddUp ==
    (call = "multiframe" /\ pc = "returned" /\ manifestWrites = 1) =>
        /\ converted_count + failed_count + Cardinality(skipped)
               = Len(frames_to_convert)
        /\ Cardinality(Requested) = Len(frames_to_convert)
        /\ Requested = skipped \cup converted \cup failed
        /\ skipped \cap (converted \cup failed) = {}
        /\ converted \cap failed = {}
        /\ converted_count = Cardinality(converted)
        /\ failed_count = Cardinality(failed)
        /\ manifest.converted_frames =
               Cardinality({f \in Requested : frameOut[f] = runNo})
        /\ manifest.converted_frames <= manifest.total_frames

\* C30's case: a call that skipped a frame, converted another and failed on a
\* third, and whose manifest counts the one converted.
C30_Witness ==
    /\ call = "multiframe" /\ pc = "returned" /\ manifestWrites = 1
    /\ Cardinality(skipped) = 1
    /\ failed_count = 1
    /\ converted_count = 1
    /\ Len(frames_to_convert) = 3
    /\ manifest.converted_frames = 1
    /\ Cardinality(Existing(frameOut)) = 2


====
